---- MODULE Spec2Model ----
(***************************************************************************)
(* A model of the LinkedIn comment scraper: the shared utilities           *)
(* (src/utils.py) and the three pipelines, Firefox (src/firefox.py),       *)
(* Chrome (src/main.py) and Playwright (src/playwright_scraper.py).        *)
(*                                                                         *)
(* One behaviour is one run of one pipeline.  Everything outside the       *)
(* program (the files found on disk, the operator's answers, what the      *)
(* browser shows, whether an external call raises) is drawn from small     *)
(* sets.  A text is a sequence of tokens, so that the empty text is << >>. *)
(***************************************************************************)
EXTENDS Integers, Sequences, FiniteSets, TLC

VARIABLES
    pipeline,     \* which script runs: "firefox", "chrome" or "playwright"
    pc,           \* position in the script
    args,         \* the parsed command line
    configFile,   \* config.json: "missing", "invalid" or "ok"
    cfgPostUrl,   \* the post_url of config.json (NoKey when the key is absent)
    post_url,     \* the resolved post URL
    credFile,     \* credentials.json
    credWrites,   \* how many times credentials.json was opened for writing
    creds,        \* what login_details returned
    credPath,     \* the path login_details took
    exitCode,     \* the exit status of the process, once pc = "exited"
    raised,       \* an exception is propagating
    browser,      \* "none", "open" (launched) or "closed" (quit)
    csv_file,     \* firefox.py's file handle: "none", "open" or "closed"
    context,      \* Playwright's browsing context
    sessionFile,  \* does linkedin_session.json exist
    sessionSaves, \* how many times save_session wrote it
    logged_in,    \* what the login flow returned: "n/a", "yes", "no"
    pageLog,      \* the navigations and login flows the page performed, in order
    navigated,    \* the URL the browser was sent to as the post (NoNav before)
    page,         \* the live page: the 'load more' controls still to be shown
    lm,           \* load_all_comments' first loop: iterations, clicks, waits
    rp,           \* load_all_comments' reply phase: the controls and the passes
    html,         \* the captured comment articles (grouped extraction)
    data,         \* the records extract_data_from_html returned
    lists,        \* firefox.py's six parallel lists
    files,        \* the output files a record writer created
    dl            \* download_avatars: its arguments and the avatar directory

vars == << pipeline, pc, args, configFile, cfgPostUrl, post_url, credFile,
           credWrites, creds, credPath, exitCode, raised, browser, csv_file,
           context, sessionFile, sessionSaves, logged_in, pageLog, navigated, page, lm,
           rp, html, data, lists, files, dl >>

(***************************************************************************)
(* Bounds of the model.                                                    *)
(***************************************************************************)
MaxLen == 2        \* longest list firefox.py finds for one field
MaxArticles == 2   \* most comment articles in a captured page
MaxLoadMore == 2   \* most times the page offers 'load more comments'
MaxExpanders == 2  \* most 'N replies' expander controls on the page

(***************************************************************************)
(* Values.                                                                 *)
(***************************************************************************)
NoKey == "<no key>"     \* the key is absent from config.json
None == "<None>"        \* Python's None
NoNav == "<no navigation>"
PostUrl == "https://www.linkedin.com/posts/p1"
NoPair == [email |-> None, password |-> None]

Min(a, b) == IF a <= b THEN a ELSE b
Max(a, b) == IF a >= b THEN a ELSE b

RECURSIVE Repeat(_, _)
Repeat(x, n) == IF n = 0 THEN << >> ELSE << x >> \o Repeat(x, n - 1)

SeqsUpTo(S, n) == UNION { [1..k -> S] : k \in 0..n }

(***************************************************************************)
(* src/utils.py                                                            *)
(***************************************************************************)

\* str.lower() on the answers an operator can type.
Lower(s) == CASE s = "Y" -> "y"
              [] s = "N" -> "n"
              [] s = "Jo" -> "jo"
              [] s = "Ann" -> "ann"
              [] s = "Smith" -> "smith"
              [] s = "Bob" -> "bob"
              [] s = "Cy" -> "cy"
              [] OTHER -> s

Choices == {"y", "Y", "n", "N", "", "maybe"}

\* Python truthiness of a str-or-None.
Falsy(s) == s = None \/ s = ""

\* check_post_url: what it returns or how it ends the process.
\* sys.exit() without an argument ends the process with status 0.
check_post_url(url, choice, entered) ==
    IF Falsy(url)
    THEN CASE Lower(choice) = "y" -> [kind |-> "return", value |-> entered, code |-> 0]
           [] Lower(choice) = "n" -> [kind |-> "exit", value |-> url, code |-> 0]
           [] OTHER -> [kind |-> "exit", value |-> url, code |-> 1]
    ELSE [kind |-> "return", value |-> url, code |-> 0]

\* The consent test of save_credentials.
SaveAnyway(choice) == TRUE
SaveAccepted(choice) == Lower(choice) = "y"

\* save_credentials: the credentials file afterwards, and whether it was
\* opened for writing.
save_credentials(file, email, password, choice) ==
    IF SaveAccepted(choice)
    THEN [file |-> [state |-> "ok", email |-> email, password |-> password], writes |-> 1]
    ELSE [file |-> file, writes |-> 0]

\* login_details loads credentials.json inside a bare except: a missing or
\* malformed file counts as no saved credentials.
credentials_exist(file) == file.state \in {"ok", "nokeys"}

\* login_details: the pair returned (or the KeyError raised when the saved
\* JSON lacks a key), the file afterwards and whether it was written.
login_details(file, useChoice, email, password, saveChoice) ==
    IF credentials_exist(file) /\ Lower(useChoice) = "y"
    THEN IF file.state = "ok"
         THEN [kind |-> "return", file |-> file, writes |-> 0,
               pair |-> [email |-> file.email, password |-> file.password]]
         ELSE [kind |-> "raise", file |-> file, writes |-> 0, pair |-> NoPair]
    ELSE LET saved == save_credentials(file, email, password, saveChoice)
         IN [kind |-> "return", file |-> saved.file, writes |-> saved.writes,
             pair |-> [email |-> email, password |-> password]]

\* What the operator did at the prompts of login_details.
OperatorPath(file, useChoice, saveChoice) ==
    IF file.state \in {"ok", "nokeys"} /\ useChoice \in {"y", "Y"} THEN "reused"
    ELSE IF saveChoice \in {"y", "Y"} THEN "typed, save accepted"
    ELSE "typed, save declined"

CredFiles ==
    { [state |-> "absent", email |-> None, password |-> None],
      [state |-> "invalid", email |-> None, password |-> None],
      [state |-> "nokeys", email |-> None, password |-> None],
      [state |-> "ok", email |-> "old@x.io", password |-> "oldpw"] }

TypedEmails == {"new@x.io"}
TypedPasswords == {"newpw"}

(***************************************************************************)
(* Texts, elements and the captured page.                                  *)
(***************************************************************************)
Space == " "
Newline == "\n"
EmailTokens == {"a@b.co", "x@y.io"}

\* str.strip(), as get_text(strip=True) applies it: surrounding whitespace goes.
RECURSIVE StripLeft(_)
StripLeft(t) == IF t # << >> /\ Head(t) = Space THEN StripLeft(Tail(t)) ELSE t
RECURSIVE StripRight(_)
StripRight(t) ==
    IF t # << >> /\ t[Len(t)] = Space THEN StripRight(SubSeq(t, 1, Len(t) - 1)) ELSE t
Strip(t) == StripRight(StripLeft(t))

\* re.findall(email_pattern, text): the addresses of the text, in order.
IsEmail(tok) == tok \in EmailTokens
FindEmails(t) == SelectSeq(t, IsEmail)

\* ", ".join(emails)
RECURSIVE Join(_)
Join(es) == IF es = << >> THEN << >>
            ELSE IF Len(es) = 1 THEN es
            ELSE << es[1], ", " >> \o Join(Tail(es))

\* urljoin("https://www.linkedin.com/", href)
BASE_URL == "https://www.linkedin.com/"
Origin == "https://www.linkedin.com"
AbsoluteHrefs == {"https://cdn.io/u"}
urljoin(href) == IF href = "" THEN << BASE_URL >>
                 ELSE IF href \in AbsoluteHrefs THEN << href >>
                 ELSE << Origin, href >>

NoElem == [present |-> FALSE, text |-> << >>]
Elem(t) == [present |-> TRUE, text |-> t]
NoLink == [present |-> FALSE, href |-> "", img |-> FALSE, src |-> ""]
Link(h, s) == [present |-> TRUE, href |-> h, img |-> s # "", src |-> s]

Article(title, alt, hl, link, span, div) ==
    [title |-> title, alt |-> alt, headline |-> hl, link |-> link,
     span |-> span, div |-> div]

\* The comment articles a captured page may hold.
ArticleKinds ==
    { Article(Elem(<< "Ann" >>), NoElem, Elem(<< "CEO" >>),
              Link("/in/ann", "https://cdn.io/ann.jpg"), Elem(<< "hi" >>), NoElem),
      Article(NoElem, NoElem, NoElem, NoLink, NoElem, NoElem),
      Article(NoElem, Elem(<< "Bob" >>), NoElem, Link("", ""),
              NoElem, Elem(<< "mail", "a@b.co", "x@y.io" >>)),
      Article(Elem(<< Space >>), NoElem, Elem(<< "CTO" >>), NoLink,
              Elem(<< Space >>), NoElem),
      Article(Elem(<< "Cy", Space >>), NoElem, NoElem,
              Link("https://cdn.io/u", "https://cdn.io/cy.jpg"), NoElem, NoElem),
      Article(NoElem, NoElem, NoElem, NoLink, Elem(<< Space, "a@b.co" >>), NoElem) }

Pages == SeqsUpTo(ArticleKinds, MaxArticles)

\* get_text(strip=True) of an element select_one found, "" when it found none.
TextOf(e) == IF e.present THEN Strip(e.text) ELSE << >>
ProfileLinkOf(a) == IF a.link.present THEN urljoin(a.link.href) ELSE << >>
AvatarOf(a) == IF a.link.present /\ a.link.img THEN << a.link.src >> ELSE << >>

\* A record is an ordered mapping: a sequence of <<field, value>> pairs.
Rec(keys, values) == [i \in 1..Len(keys) |-> << keys[i], values[i] >>]
Keys(r) == [i \in 1..Len(r) |-> r[i][1]]
Get(r, k) == LET i == CHOOSE j \in 1..Len(r) : r[j][1] = k IN r[i][2]

(***************************************************************************)
(* Grouped extraction: extract_data_from_html (src/main.py, Chrome).       *)
(***************************************************************************)
ChromeKeys == << "Name", "Profile Link", "Profile Picture", "Headline", "Email", "Comment" >>

\* The name and the comment fall back to a second selector when the first misses.
ChromeNameElem(a) == IF a.title.present THEN a.title ELSE a.alt
ChromeCommentElem(a) == IF a.span.present THEN a.span ELSE a.div

ChromeRecord(a) ==
    LET name == TextOf(ChromeNameElem(a))
        comment_text == TextOf(ChromeCommentElem(a))
        emails == IF ChromeCommentElem(a).present THEN FindEmails(comment_text) ELSE << >>
    IN Rec(ChromeKeys, << name, ProfileLinkOf(a), AvatarOf(a), TextOf(a.headline),
                          Join(emails), comment_text >>)

\* if name or comment_text: data.append(...)
Kept(name, comment_text) == name # << >> \/ comment_text # << >>

RECURSIVE chrome_extract_data_from_html(_)
chrome_extract_data_from_html(articles) ==
    IF articles = << >> THEN << >>
    ELSE LET r == ChromeRecord(Head(articles))
             rest == chrome_extract_data_from_html(Tail(articles))
         IN IF Kept(Get(r, "Name"), Get(r, "Comment")) THEN << r >> \o rest ELSE rest

(***************************************************************************)
(* Grouped extraction: extract_data_from_html (src/playwright_scraper.py). *)
(***************************************************************************)
PwKeys == << "name", "profile_link", "avatar", "headline", "email", "comment" >>

\* The names playwright_scraper.py binds at module level by its imports.
PwImports == { "asyncio", "csv", "json", "argparse", "datetime", "Path", "urljoin",
               "async_playwright", "PlaywrightTimeout", "BSoup" }

\* emails = re.findall(...) runs only for a non-empty comment text, and raises
\* NameError when the name re is not bound.
PwFindallRaises(comment_text) == comment_text # << >> /\ "re" \notin PwImports

PwRecord(a) ==
    LET comment_text == TextOf(a.span)
        emails == IF comment_text # << >> THEN FindEmails(comment_text) ELSE << >>
    IN Rec(PwKeys, << TextOf(a.title), ProfileLinkOf(a), AvatarOf(a), TextOf(a.headline),
                      Join(emails), comment_text >>)

\* [kind |-> "return", data |-> the records] or [kind |-> "raise", ...].
RECURSIVE pw_extract_data_from_html(_)
pw_extract_data_from_html(articles) ==
    IF articles = << >> THEN [kind |-> "return", data |-> << >>]
    ELSE LET a == Head(articles)
             r == PwRecord(a)
             rest == pw_extract_data_from_html(Tail(articles))
         IN IF PwFindallRaises(TextOf(a.span)) \/ rest.kind = "raise"
            THEN [kind |-> "raise", data |-> << >>]
            ELSE [kind |-> "return",
                  data |-> IF Kept(Get(r, "name"), Get(r, "comment"))
                           THEN << r >> \o rest.data ELSE rest.data]

(***************************************************************************)
(* write_to_csv (src/main.py and src/playwright_scraper.py, identical).    *)
(***************************************************************************)
OutputFile == "linkedin_comments-<suffix>.csv"

\* csv.DictWriter writes each record's values in the order of fieldnames.
RowOf(r, fieldnames) == [i \in 1..Len(fieldnames) |-> Get(r, fieldnames[i])]

CsvOf(recs) ==
    LET fieldnames == Keys(recs[1])
    IN << fieldnames >> \o [i \in 1..Len(recs) |-> RowOf(recs[i], fieldnames)]

\* Without the guard, open() creates the file before data[0] raises IndexError.
write_to_csv_unguarded(recs, fs) ==
    { f \in fs : f.name # OutputFile }
        \cup { [name |-> OutputFile, rows |-> IF recs = << >> THEN << >> ELSE CsvOf(recs)] }

\* The files afterwards: nothing is opened for an empty sequence.
write_to_csv(recs, fs) ==
    IF recs = << >> THEN fs
    ELSE { f \in fs : f.name # OutputFile }
             \cup { [name |-> OutputFile, rows |-> CsvOf(recs)] }

(***************************************************************************)
(* download_avatars (src/utils.py).                                        *)
(***************************************************************************)
AvatarDir == "avatars-<suffix>"
DirStates == {"absent", "present"}

\* filename.lower()
RECURSIVE LowerText(_)
LowerText(t) == IF t = << >> THEN << >> ELSE << Lower(Head(t)) >> \o LowerText(Tail(t))

\* .replace(".", "")
RemoveDots(t) == SelectSeq(t, LAMBDA tok : tok # ".")

\* .replace(" ", "-")
RECURSIVE SpacesToHyphens(_)
SpacesToHyphens(t) ==
    IF t = << >> THEN << >>
    ELSE << IF Head(t) = Space THEN "-" ELSE Head(t) >> \o SpacesToHyphens(Tail(t))

\* line 82: filename.lower().replace(".", "").replace(" ", "-")
SanitizeDroppingSpaces(filename) ==
    SelectSeq(RemoveDots(LowerText(filename)), LAMBDA tok : tok # Space)
Sanitize(filename) == SpacesToHyphens(RemoveDots(LowerText(filename)))

\* lines 81-83: the list comprehension over filenames.
RECURSIVE SanitizeAll(_)
SanitizeAll(filenames) ==
    IF filenames = << >> THEN << >>
    ELSE << Sanitize(Head(filenames)) >> \o SanitizeAll(Tail(filenames))

\* line 95: f"{dir_name}/{filename}.jpg"
AvatarPath(dir_name, stem) == << dir_name, "/" >> \o stem \o << ".jpg" >>

\* urlretrieve of an empty URL raises ValueError (unknown url type).
Fetchable(url) == url # << >>

\* lines 94-95: the files of the directory after the first k retrievals; a
\* retrieval to a path that exists replaces the file.
RECURSIVE Retrieved(_, _, _, _)
Retrieved(urls, stems, dir_name, k) ==
    IF k = 0 THEN {}
    ELSE LET before == Retrieved(urls, stems, dir_name, k - 1)
             path == AvatarPath(dir_name, stems[k])
         IN { f \in before : f.path # path } \cup { [path |-> path, body |-> urls[k]] }

\* lines 75-97.  dirBefore: is the directory there; mkdirOk: does os.mkdir
\* succeed when it is not (its failure is swallowed either way); failAt: the
\* retrieval the network fails, 0 for none.  failed is the retrieval that
\* raised, 0 when the function returned.
download_avatars(urls, filenames, dir_name, dirBefore, mkdirOk, failAt) ==
    LET dir == IF dirBefore = "present" \/ mkdirOk THEN "present" ELSE "absent"
        stems == SanitizeAll(filenames)
        n == Min(Len(urls), Len(stems))
        bad == { k \in 1..n : dir = "absent" \/ ~Fetchable(urls[k]) \/ k = failAt }
        failed == IF bad = {} THEN 0 ELSE CHOOSE k \in bad : \A j \in bad : k <= j
        done == IF failed = 0 THEN n ELSE failed - 1
    IN [called |-> TRUE, urls |-> urls, filenames |-> filenames,
        dirBefore |-> dirBefore, dir |-> dir, failed |-> failed,
        saved |-> Retrieved(urls, stems, dir_name, done)]

(***************************************************************************)
(* Flat extraction and padding (src/firefox.py).                           *)
(***************************************************************************)
\* text.split("\n")[0]
RECURSIVE FirstLine(_)
FirstLine(t) == IF t = << >> \/ Head(t) = Newline THEN << >>
                ELSE << Head(t) >> \o FirstLine(Tail(t))

RECURSIVE TextsOf(_)
TextsOf(elems) ==
    IF elems = << >> THEN << >>
    ELSE << Strip(Head(elems)) >> \o TextsOf(Tail(elems))

RECURSIVE NamesOf(_)
NamesOf(elems) ==
    IF elems = << >> THEN << >>
    ELSE << FirstLine(Strip(Head(elems))) >> \o NamesOf(Tail(elems))

RECURSIVE ProfileLinksOf(_)
ProfileLinksOf(links) ==
    IF links = << >> THEN << >>
    ELSE << urljoin(Head(links).href) >> \o ProfileLinksOf(Tail(links))

RECURSIVE AvatarsOf(_)
AvatarsOf(links) ==
    IF links = << >> THEN << >>
    ELSE << IF Head(links).img THEN << Head(links).src >> ELSE << >> >>
         \o AvatarsOf(Tail(links))

\* One text per address: the list holds strings, as the other five lists do.
RECURSIVE AddressTexts(_)
AddressTexts(es) ==
    IF es = << >> THEN << >> ELSE << << Head(es) >> >> \o AddressTexts(Tail(es))

\* extract_emails is imported from utils, which does not define it: every
\* address of the comment list, in encounter order.
RECURSIVE extract_emails(_)
extract_emails(comments) ==
    IF comments = << >> THEN << >>
    ELSE AddressTexts(FindEmails(Head(comments))) \o extract_emails(Tail(comments))

\* max_len leaves the emails out.
max_len(names, profile_links, avatars, headlines, comments) ==
    Max(Len(names), Max(Len(profile_links), Max(Len(avatars),
        Max(Len(headlines), Len(comments)))))

\* xs += [""] * n, where a negative n adds nothing.
Pad(xs, n) == xs \o Repeat(<< >>, IF n > Len(xs) THEN n - Len(xs) ELSE 0)

\* firefox.py lines 200-240: the six lists after padding, with the six
\* lengths that were found before it.
FlatExtract(nameElems, headlineElems, linkElems, commentElems) ==
    LET comments == TextsOf(commentElems)
        headlines == TextsOf(headlineElems)
        emails == extract_emails(comments)
        names == NamesOf(nameElems)
        profile_links == ProfileLinksOf(linkElems)
        avatars == AvatarsOf(linkElems)
        m == max_len(names, profile_links, avatars, headlines, comments)
    IN [names |-> Pad(names, m), profile_links |-> Pad(profile_links, m),
        avatars |-> Pad(avatars, m), headlines |-> Pad(headlines, m),
        emails |-> Pad(emails, m), comments |-> Pad(comments, m),
        found |-> << Len(names), Len(profile_links), Len(avatars),
                     Len(headlines), Len(emails), Len(comments) >>]

NoLists == [names |-> << >>, profile_links |-> << >>, avatars |-> << >>,
            headlines |-> << >>, emails |-> << >>, comments |-> << >>,
            found |-> << >>]

\* write_data2csv is imported from utils, which does not define it: one row
\* per index the six sequences share.
write_data2csv(l) ==
    LET n == Min(Len(l.names), Min(Len(l.profile_links), Min(Len(l.avatars),
                 Min(Len(l.headlines), Min(Len(l.emails), Len(l.comments))))))
    IN [i \in 1..n |-> << l.names[i], l.profile_links[i], l.avatars[i],
                          l.headlines[i], l.emails[i], l.comments[i] >>]

FfHeader == << "Name", "Profile Link", "Profile Picture", "Headline", "Email", "Comment" >>

FfNameElems == { << "Ann", Newline, "2nd" >> }
FfHeadlineElems == { << "CEO" >> }
FfLinkElems == { Link("/in/ann", "https://cdn.io/ann.jpg") }
FfCommentElems == { << "hi", Space >>, << "a@b.co", "or", "x@y.io" >> }

(***************************************************************************)
(* The initial state: the command line is parsed, nothing has run.         *)
(***************************************************************************)
Pipelines == {"firefox", "chrome", "playwright"}

\* --use-session is declared action="store_true" with default=True: what
\* args.use_session holds when the flag is on the command line and when not.
use_session_arg(flagGiven) == IF flagGiven THEN TRUE ELSE TRUE

ArgsOf(p) ==
    { [show_replies |-> sr, download_avatars |-> da, save_page_source |-> sp,
       use_session_flag |-> us, use_session |-> use_session_arg(us),
       manual_login |-> ml,
       username |-> un, password |-> pw] :
        sr \in BOOLEAN, sp \in BOOLEAN,
        da \in IF p = "playwright" THEN {FALSE} ELSE BOOLEAN,
        us \in IF p = "playwright" THEN BOOLEAN ELSE {FALSE},
        ml \in IF p = "playwright" THEN BOOLEAN ELSE {FALSE},
        un \in IF p = "playwright" THEN {None, "me@x.io"} ELSE {None},
        pw \in IF p = "playwright" THEN {None, "pw"} ELSE {None} }

NoPage == [moreLeft |-> 0, sel |-> 1]
NoContext == [state |-> "none", from |-> "n/a"]
NoLm == [iterations |-> 0, clicks |-> 0, waits |-> 0, found |-> FALSE]
\* The reply phase: 'See previous replies' buttons left, the 'N replies'
\* controls in document order, Chrome's attempts counter, how many controls
\* the last pass located and which it clicked (in click order), and whether
\* the last step of load_all_comments ended on a wait timeout.
NoRp == [prev |-> 0, expanders |-> << >>, attempts |-> 0, located |-> 0,
         clicks |-> << >>, timeout |-> FALSE]
NoDl == [called |-> FALSE, urls |-> << >>, filenames |-> << >>,
         dirBefore |-> "absent", dir |-> "absent", failed |-> 0, saved |-> {}]

Init ==
    /\ pipeline \in Pipelines
    /\ pc = "start"
    /\ args \in ArgsOf(pipeline)
    /\ configFile \in {"missing", "invalid", "ok"}
    /\ cfgPostUrl \in IF configFile = "ok" THEN {NoKey, "", PostUrl} ELSE {NoKey}
    /\ post_url = None
    /\ credFile \in IF pipeline = "playwright" THEN { CHOOSE f \in CredFiles : f.state = "absent" }
                    ELSE CredFiles
    /\ credWrites = 0
    /\ creds = NoPair
    /\ credPath = "none"
    /\ exitCode = 0
    /\ raised = FALSE
    /\ browser = "none"
    /\ csv_file = "none"
    /\ context = NoContext
    /\ sessionFile \in IF pipeline = "playwright" THEN BOOLEAN ELSE {FALSE}
    /\ sessionSaves = 0
    /\ logged_in = "n/a"
    /\ pageLog = << >>
    /\ navigated = NoNav
    /\ page = NoPage
    /\ lm = NoLm
    /\ html = << >>
    /\ data = << >>
    /\ lists = NoLists
    /\ files = {}
    /\ rp = NoRp
    /\ dl = NoDl

inputV == << pipeline, args, configFile, cfgPostUrl >>
credV == << credFile, credWrites, creds, credPath >>
pwV == << context, sessionFile, sessionSaves, logged_in >>
pageV == << page, lm, rp >>
outV == << html, data, lists, files, dl >>

\* The process ends with this status.
Exit(code) == pc' = "exited" /\ exitCode' = code

(***************************************************************************)
(* src/firefox.py, the module-level script.                                *)
(***************************************************************************)
\* lines 71-79: a missing or malformed config.json ends the run with exit(1).
FfLoadConfig ==
    /\ pipeline = "firefox" /\ pc = "start"
    /\ IF configFile = "ok" THEN pc' = "ff_url" /\ UNCHANGED exitCode ELSE Exit(1)
    /\ UNCHANGED << inputV, credV, pwV, pageV, outV, post_url, raised, browser,
                    csv_file, pageLog, navigated >>

\* line 81: Config["post_url"] raises KeyError when the key is absent.
FfCheckPostUrl ==
    /\ pipeline = "firefox" /\ pc = "ff_url"
    /\ IF cfgPostUrl = NoKey
       THEN Exit(1) /\ UNCHANGED post_url
       ELSE \E choice \in Choices, entered \in {"", PostUrl} :
              LET r == check_post_url(cfgPostUrl, choice, entered)
              IN IF r.kind = "exit"
                 THEN Exit(r.code) /\ UNCHANGED post_url
                 ELSE pc' = "ff_csv" /\ post_url' = r.value /\ UNCHANGED exitCode
    /\ UNCHANGED << inputV, credV, pwV, pageV, outV, raised, browser, csv_file,
                    pageLog, navigated >>

\* lines 84-95: open the CSV and write the header, or exit(1).
FfOpenCsv ==
    /\ pipeline = "firefox" /\ pc = "ff_csv"
    /\ \E ok \in BOOLEAN :
         IF ok
         THEN /\ csv_file' = "open"
              /\ files' = { [name |-> OutputFile, rows |-> << FfHeader >>] }
              /\ pc' = "ff_creds" /\ UNCHANGED exitCode
         ELSE Exit(1) /\ UNCHANGED << csv_file, files >>
    /\ UNCHANGED << inputV, credV, pwV, pageV, dl, html, data, lists, post_url, raised,
                    browser, pageLog, navigated >>

\* line 97: login_details() runs outside every try block.
FfLoginDetails ==
    /\ pipeline = "firefox" /\ pc = "ff_creds"
    /\ \E useChoice \in Choices, saveChoice \in Choices,
          email \in TypedEmails, password \in TypedPasswords :
         LET r == login_details(credFile, useChoice, email, password, saveChoice)
         IN /\ credFile' = r.file
            /\ credWrites' = credWrites + r.writes
            /\ creds' = r.pair
            /\ credPath' = OperatorPath(credFile, useChoice, saveChoice)
            /\ IF r.kind = "raise"
               THEN Exit(1) /\ raised' = TRUE
               ELSE pc' = "ff_launch" /\ UNCHANGED << exitCode, raised >>
    /\ UNCHANGED << inputV, pwV, pageV, outV, post_url, browser, csv_file, pageLog,
                    navigated >>

\* lines 118-129: a failure of the constructor or of maximize_window closes
\* the CSV and exits; the driver, if it was created, is not quit.
FfLaunch ==
    /\ pipeline = "firefox" /\ pc = "ff_launch"
    /\ \E outcome \in {"ok", "constructor raises", "maximize_window raises"} :
         /\ browser' = IF outcome = "constructor raises" THEN "none" ELSE "open"
         /\ IF outcome = "ok"
            THEN pc' = "ff_login" /\ UNCHANGED << exitCode, csv_file >>
            ELSE Exit(1) /\ csv_file' = "closed"
    /\ UNCHANGED << inputV, credV, pwV, pageV, outV, post_url, raised, pageLog,
                    navigated >>

\* A step of the try block that raised: on to the except clause.
FfRaise == pc' = "ff_except" /\ raised' = TRUE

\* lines 133-170: the login page, the form, the verification pause.
FfLogin ==
    /\ pipeline = "firefox" /\ pc = "ff_login"
    /\ pageLog' = Append(pageLog, "goto login")
    /\ \E ok \in BOOLEAN : IF ok THEN pc' = "ff_nav" /\ UNCHANGED raised ELSE FfRaise
    /\ UNCHANGED << inputV, credV, pwV, pageV, outV, post_url, exitCode, browser,
                    csv_file, navigated >>

\* lines 173-175: driver.get(post_url).
FfNavigate ==
    /\ pipeline = "firefox" /\ pc = "ff_nav"
    /\ pageLog' = Append(pageLog, "goto post")
    /\ navigated' = post_url
    /\ \E ok \in BOOLEAN : IF ok THEN pc' = "ff_load" /\ UNCHANGED raised ELSE FfRaise
    /\ UNCHANGED << inputV, credV, pwV, pageV, outV, post_url, exitCode, browser,
                    csv_file >>

\* lines 181-186: load_more is imported from utils, which does not define it;
\* it returns or raises.
FfLoadMore ==
    /\ pipeline = "firefox" /\ pc = "ff_load"
    /\ \E ok \in BOOLEAN : IF ok THEN pc' = "ff_save" /\ UNCHANGED raised ELSE FfRaise
    /\ UNCHANGED << inputV, credV, pwV, pageV, outV, post_url, exitCode, browser,
                    csv_file, pageLog, navigated >>

\* lines 191-194: the page source is saved on request.
FfSavePageSource ==
    /\ pipeline = "firefox" /\ pc = "ff_save"
    /\ \E ok \in BOOLEAN :
         IF ok \/ ~args.save_page_source
         THEN pc' = "ff_extract" /\ UNCHANGED raised
         ELSE FfRaise
    /\ UNCHANGED << inputV, credV, pwV, pageV, outV, post_url, exitCode, browser,
                    csv_file, pageLog, navigated >>

\* lines 197-242: parse, query the four classes, pad.
FfExtract ==
    /\ pipeline = "firefox" /\ pc = "ff_extract"
    /\ \E nameElems \in SeqsUpTo(FfNameElems, MaxLen),
          headlineElems \in SeqsUpTo(FfHeadlineElems, MaxLen),
          linkElems \in SeqsUpTo(FfLinkElems, MaxLen),
          commentElems \in SeqsUpTo(FfCommentElems, MaxLen) :
         lists' = FlatExtract(nameElems, headlineElems, linkElems, commentElems)
    /\ pc' = "ff_write"
    /\ UNCHANGED << inputV, credV, pwV, pageV, dl, html, data, files, post_url, exitCode,
                    raised, browser, csv_file, pageLog, navigated >>

\* line 245: write_data2csv(writer, ...).
FfWrite ==
    /\ pipeline = "firefox" /\ pc = "ff_write"
    /\ \E ok \in BOOLEAN :
         IF ok
         THEN /\ files' = { [name |-> OutputFile,
                             rows |-> << FfHeader >> \o write_data2csv(lists)] }
              /\ pc' = "ff_avatars" /\ UNCHANGED raised
         ELSE FfRaise /\ UNCHANGED files
    /\ UNCHANGED << inputV, credV, pwV, pageV, dl, html, data, lists, post_url, exitCode,
                    browser, csv_file, pageLog, navigated >>

\* lines 248-257: download_avatars on request, then the summary.
FfDownloadAvatars ==
    /\ pipeline = "firefox" /\ pc = "ff_avatars"
    /\ IF ~args.download_avatars
       THEN pc' = "ff_finally" /\ UNCHANGED << raised, dl >>
       ELSE \/ \E dirBefore \in DirStates, mkdirOk \in BOOLEAN, failAt \in 0..MaxArticles :
                 /\ dl' = download_avatars(lists.avatars, lists.names, AvatarDir,
                                           dirBefore, mkdirOk, failAt)
                 /\ IF dl'.failed = 0 THEN pc' = "ff_finally" /\ UNCHANGED raised
                    ELSE FfRaise
            \/ \* Config["dirname"] is missing: KeyError before the call
               FfRaise /\ UNCHANGED dl
    /\ UNCHANGED << inputV, credV, pwV, pageV, html, data, lists, files, post_url,
                    exitCode, browser, csv_file, pageLog, navigated >>

\* lines 259-265: the screenshot (and the page source) may raise in turn;
\* either way the exception goes on to the finally clause.
FfExcept ==
    /\ pipeline = "firefox" /\ pc = "ff_except"
    /\ pc' = "ff_finally"
    /\ UNCHANGED << inputV, credV, pwV, pageV, outV, post_url, exitCode, raised,
                    browser, csv_file, pageLog, navigated >>

\* driver.quit() then csv_file.close(): a quit that raises skips the close.
FfQuitThenClose(quitOk) ==
    /\ browser' = IF quitOk THEN "closed" ELSE browser
    /\ csv_file' = IF quitOk THEN "closed" ELSE csv_file
    /\ Exit(IF raised \/ ~quitOk THEN 1 ELSE 0)
    /\ raised' = (raised \/ ~quitOk)

\* lines 267-271: the finally clause.
FfFinally ==
    /\ pipeline = "firefox" /\ pc = "ff_finally"
    /\ \E quitOk \in BOOLEAN : FfQuitThenClose(quitOk)
    /\ UNCHANGED << inputV, credV, pwV, pageV, outV, post_url, pageLog, navigated >>

FfNext ==
    \/ FfLoadConfig \/ FfCheckPostUrl \/ FfOpenCsv \/ FfLoginDetails \/ FfLaunch
    \/ FfLogin \/ FfNavigate \/ FfLoadMore \/ FfSavePageSource \/ FfExtract
    \/ FfWrite \/ FfDownloadAvatars \/ FfExcept \/ FfFinally

(***************************************************************************)
(* load_all_comments, the 'load more comments' loop (src/main.py).         *)
(***************************************************************************)
ChromeSelectors ==
    << "button.comments-comments-list__load-more-comments-button--cr",
       "button.comments-comments-list__load-more-comments-button",
       "button[aria-label*='Load more comments']",
       "button[aria-label*='more comments']" >>

\* A timeout that ended the search at the first selector.
FirstSelectorOnly(p) ==
    IF p.moreLeft > 0 /\ p.sel = 1 THEN [found |-> TRUE, waits |-> 1]
    ELSE [found |-> FALSE, waits |-> 1]

\* lines 44-49: each selector is waited for in turn (one wait.until each)
\* until one is clickable: was a control found, and after how many waits.
ChromeFindLoadMore(p) ==
    IF p.moreLeft > 0 THEN [found |-> TRUE, waits |-> p.sel]
    ELSE [found |-> FALSE, waits |-> Len(ChromeSelectors)]

LmMiss(l, w) == [l EXCEPT !.iterations = @ + 1, !.waits = @ + w]
LmHit(l, w) == [l EXCEPT !.iterations = @ + 1, !.waits = @ + w, !.found = TRUE]
LmClick(l, w) == [LmHit(l, w) EXCEPT !.clicks = @ + 1]

LivePages == [moreLeft : 0..MaxLoadMore, sel : 1..Len(ChromeSelectors)]

\* line 59: the loop's own handler names TimeoutException only.
CatchesNothing(exc) == FALSE
ChromeLoopCatches(exc) == exc = "TimeoutException"

(***************************************************************************)
(* load_all_comments, the reply phase (src/main.py lines 63-100,           *)
(* src/playwright_scraper.py lines 99-142).                                *)
(***************************************************************************)
\* An 'N replies' control: a click expands it away, a click leaves it in
\* place, or it is not displayed.
ExpanderKinds == {"expands", "stays", "hidden"}
ReplyPages == SeqsUpTo(ExpanderKinds, MaxExpanders)

\* main.py line 82 (is_displayed() and "repl" in the text),
\* playwright_scraper.py line 128 (is_visible()).
Clickable(kind) == kind # "hidden"

\* main.py line 80: for indicator in reply_indicators.
ChromeVisitOrder(n) == [i \in 1..n |-> i]
\* playwright_scraper.py line 126: for i in range(count - 1, -1, -1).
PwVisitOrder(n) == [i \in 1..n |-> n + 1 - i]

\* The controls one pass clicks, in the order it clicks them.
ClicksOf(expanders, order) == SelectSeq(order, LAMBDA i : Clickable(expanders[i]))
\* The controls the page still shows after the pass.
AfterPass(expanders) == SelectSeq(expanders, LAMBDA k : k # "expands")

\* main.py line 67 and line 70: while attempts < max_attempts.
max_attempts == 5
NoAttemptLimit(attempts) == TRUE
ChromeLoopGuard(attempts) == attempts < max_attempts

(***************************************************************************)
(* src/main.py, main().                                                    *)
(***************************************************************************)
\* lines 185-190
ChLoadConfig ==
    /\ pipeline = "chrome" /\ pc = "start"
    /\ IF configFile = "ok" THEN pc' = "ch_url" /\ UNCHANGED exitCode ELSE Exit(1)
    /\ UNCHANGED << inputV, credV, pwV, pageV, outV, post_url, raised, browser,
                    csv_file, pageLog, navigated >>

\* line 192: config.get("post_url") is None when the key is absent.
ChCheckPostUrl ==
    /\ pipeline = "chrome" /\ pc = "ch_url"
    /\ \E choice \in Choices, entered \in {"", PostUrl} :
         LET r == check_post_url(IF cfgPostUrl = NoKey THEN None ELSE cfgPostUrl,
                                 choice, entered)
         IN IF r.kind = "exit"
            THEN Exit(r.code) /\ UNCHANGED post_url
            ELSE pc' = "ch_creds" /\ post_url' = r.value /\ UNCHANGED exitCode
    /\ UNCHANGED << inputV, credV, pwV, pageV, outV, raised, browser, csv_file,
                    pageLog, navigated >>

\* line 195
ChLoginDetails ==
    /\ pipeline = "chrome" /\ pc = "ch_creds"
    /\ \E useChoice \in Choices, saveChoice \in Choices,
          email \in TypedEmails, password \in TypedPasswords :
         LET r == login_details(credFile, useChoice, email, password, saveChoice)
         IN /\ credFile' = r.file
            /\ credWrites' = credWrites + r.writes
            /\ creds' = r.pair
            /\ credPath' = OperatorPath(credFile, useChoice, saveChoice)
            /\ IF r.kind = "raise"
               THEN Exit(1) /\ raised' = TRUE
               ELSE pc' = "ch_launch" /\ UNCHANGED << exitCode, raised >>
    /\ UNCHANGED << inputV, pwV, pageV, outV, post_url, browser, csv_file, pageLog,
                    navigated >>

\* lines 214-222
ChLaunch ==
    /\ pipeline = "chrome" /\ pc = "ch_launch"
    /\ \E outcome \in {"ok", "constructor raises", "maximize_window raises"} :
         /\ browser' = IF outcome = "constructor raises" THEN "none" ELSE "open"
         /\ IF outcome = "ok" THEN pc' = "ch_login" /\ UNCHANGED exitCode ELSE Exit(1)
    /\ UNCHANGED << inputV, credV, pwV, pageV, outV, post_url, raised, csv_file,
                    pageLog, navigated >>

ChRaise == pc' = "ch_except" /\ raised' = TRUE

\* lines 225-240
ChLogin ==
    /\ pipeline = "chrome" /\ pc = "ch_login"
    /\ pageLog' = Append(pageLog, "goto login")
    /\ \E ok \in BOOLEAN : IF ok THEN pc' = "ch_nav" /\ UNCHANGED raised ELSE ChRaise
    /\ UNCHANGED << inputV, credV, pwV, pageV, outV, post_url, exitCode, browser,
                    csv_file, navigated >>

\* lines 242-250: driver.get(post_url); the page that loads is any page.
ChNavigate ==
    /\ pipeline = "chrome" /\ pc = "ch_nav"
    /\ pageLog' = Append(pageLog, "goto post")
    /\ navigated' = post_url
    /\ \E ok \in BOOLEAN, p \in LivePages :
         IF ok THEN pc' = "ch_load" /\ page' = p /\ UNCHANGED raised
         ELSE ChRaise /\ UNCHANGED page
    /\ UNCHANGED << inputV, credV, pwV, outV, lm, rp, post_url, exitCode, browser,
                    csv_file >>

\* lines 33-60: one iteration of while True.  A TimeoutException out of the
\* scroll or the click ends the loop; any other exception leaves
\* load_all_comments.
ChLoadMoreIteration ==
    /\ pipeline = "chrome" /\ pc = "ch_load"
    /\ LET f == ChromeFindLoadMore(page)
       IN IF ~f.found
          THEN /\ lm' = LmMiss(lm, f.waits)
               /\ rp' = [rp EXCEPT !.timeout = TRUE]
               /\ pc' = "ch_loaded" /\ UNCHANGED << page, raised >>
          ELSE \E outcome \in {"clicked", "TimeoutException", "other exception"} :
                 IF outcome = "clicked"
                 THEN /\ lm' = LmClick(lm, f.waits)
                      /\ rp' = [rp EXCEPT !.timeout = FALSE]
                      /\ page' = [page EXCEPT !.moreLeft = @ - 1]
                      /\ UNCHANGED << pc, raised >>
                 ELSE /\ lm' = LmHit(lm, f.waits)
                      /\ rp' = [rp EXCEPT !.timeout = (outcome = "TimeoutException")]
                      /\ IF ChromeLoopCatches(outcome)
                         THEN pc' = "ch_loaded" /\ UNCHANGED << page, raised >>
                         ELSE ChRaise /\ UNCHANGED page
    /\ UNCHANGED << inputV, credV, pwV, outV, post_url, exitCode, browser, csv_file,
                    pageLog, navigated >>

\* lines 61-68: the first loop is over; without show_replies the function
\* returns, with it the page shows some 'N replies' controls.
ChReplies ==
    /\ pipeline = "chrome" /\ pc = "ch_loaded"
    /\ page' = NoPage /\ lm' = NoLm
    /\ IF args.show_replies
       THEN \E e \in ReplyPages :
              rp' = [NoRp EXCEPT !.expanders = e] /\ pc' = "ch_expand"
       ELSE rp' = NoRp /\ pc' = "ch_save"
    /\ UNCHANGED << inputV, credV, pwV, outV, post_url, exitCode, raised, browser,
                    csv_file, pageLog, navigated >>

\* lines 70-98: the loop test and one pass.  Every exception of a pass is
\* caught (line 97) and ends the loop; a pass that clicked nothing ends it.
ChExpandPass ==
    /\ pipeline = "chrome" /\ pc = "ch_expand"
    /\ IF ~ChromeLoopGuard(rp.attempts)
       THEN pc' = "ch_replied" /\ rp' = [rp EXCEPT !.timeout = FALSE]
       ELSE \E outcome \in {"ok", "TimeoutException", "other exception"} :
              IF outcome # "ok"
              THEN /\ rp' = [rp EXCEPT !.timeout = (outcome = "TimeoutException")]
                   /\ pc' = "ch_replied"
              ELSE LET n == Len(rp.expanders)
                       c == ClicksOf(rp.expanders, ChromeVisitOrder(n))
                   IN /\ rp' = [rp EXCEPT !.located = n, !.clicks = c,
                                          !.expanders = AfterPass(@),
                                          !.attempts = IF c # << >> THEN @ + 1 ELSE @,
                                          !.timeout = FALSE]
                      /\ pc' = IF c = << >> THEN "ch_replied" ELSE "ch_expand"
    /\ UNCHANGED << inputV, credV, pwV, outV, page, lm, post_url, exitCode, raised,
                    browser, csv_file, pageLog, navigated >>

\* line 100: load_all_comments returns.
ChReturn ==
    /\ pipeline = "chrome" /\ pc = "ch_replied"
    /\ pc' = "ch_save" /\ rp' = NoRp
    /\ UNCHANGED << inputV, credV, pwV, outV, page, lm, post_url, exitCode, raised,
                    browser, csv_file, pageLog, navigated >>

\* lines 254-257
ChSavePageSource ==
    /\ pipeline = "chrome" /\ pc = "ch_save"
    /\ \E ok \in BOOLEAN :
         IF ok \/ ~args.save_page_source
         THEN pc' = "ch_extract" /\ UNCHANGED raised
         ELSE ChRaise
    /\ UNCHANGED << inputV, credV, pwV, pageV, outV, post_url, exitCode, browser,
                    csv_file, pageLog, navigated >>

\* line 260: driver.page_source holds any comment articles.
ChExtract ==
    /\ pipeline = "chrome" /\ pc = "ch_extract"
    /\ \E h \in Pages : html' = h /\ data' = chrome_extract_data_from_html(h)
    /\ pc' = "ch_write"
    /\ UNCHANGED << inputV, credV, pwV, pageV, dl, lists, files, post_url, exitCode,
                    raised, browser, csv_file, pageLog, navigated >>

\* line 263: write_to_csv(data, output_file); open() may fail.
ChWrite ==
    /\ pipeline = "chrome" /\ pc = "ch_write"
    /\ \E ok \in BOOLEAN :
         IF ok \/ data = << >>
         THEN files' = write_to_csv(data, files) /\ pc' = "ch_avatars" /\ UNCHANGED raised
         ELSE ChRaise /\ UNCHANGED files
    /\ UNCHANGED << inputV, credV, pwV, pageV, dl, html, data, lists, post_url, exitCode,
                    browser, csv_file, pageLog, navigated >>

\* line 266: [item['Profile Picture'] for item in data if item.get('Profile Picture')]
RECURSIVE ChromeAvatars(_)
ChromeAvatars(records) ==
    IF records = << >> THEN << >>
    ELSE (IF Get(Head(records), "Profile Picture") # << >>
          THEN << Get(Head(records), "Profile Picture") >> ELSE << >>)
         \o ChromeAvatars(Tail(records))

\* line 267: [item['Name'] for item in data if item.get('Profile Picture')]
RECURSIVE EveryName(_)
EveryName(records) ==
    IF records = << >> THEN << >>
    ELSE << Get(Head(records), "Name") >> \o EveryName(Tail(records))
RECURSIVE ChromeAvatarNames(_)
ChromeAvatarNames(records) ==
    IF records = << >> THEN << >>
    ELSE (IF Get(Head(records), "Profile Picture") # << >>
          THEN << Get(Head(records), "Name") >> ELSE << >>)
         \o ChromeAvatarNames(Tail(records))

\* lines 265-271: the two lists are built and handed to download_avatars;
\* what it raises goes to the handler of line 273.
ChDownloadAvatars ==
    /\ pipeline = "chrome" /\ pc = "ch_avatars"
    /\ IF ~args.download_avatars
       THEN pc' = "ch_finally" /\ UNCHANGED << raised, dl >>
       ELSE \E dirBefore \in DirStates, mkdirOk \in BOOLEAN, failAt \in 0..MaxArticles :
              /\ dl' = download_avatars(ChromeAvatars(data), ChromeAvatarNames(data),
                                        AvatarDir, dirBefore, mkdirOk, failAt)
              /\ IF dl'.failed = 0 THEN pc' = "ch_finally" /\ UNCHANGED raised
                 ELSE ChRaise
    /\ UNCHANGED << inputV, credV, pwV, pageV, html, data, lists, files, post_url,
                    exitCode, browser, csv_file, pageLog, navigated >>

\* lines 273-276
ChExcept ==
    /\ pipeline = "chrome" /\ pc = "ch_except"
    /\ pc' = "ch_finally"
    /\ UNCHANGED << inputV, credV, pwV, pageV, outV, post_url, exitCode, raised,
                    browser, csv_file, pageLog, navigated >>

\* lines 277-279, then the process ends: status 1 when an exception is left.
ChFinally ==
    /\ pipeline = "chrome" /\ pc = "ch_finally"
    /\ \E quitOk \in BOOLEAN :
         /\ browser' = IF quitOk THEN "closed" ELSE browser
         /\ raised' = (raised \/ ~quitOk)
         /\ Exit(IF raised \/ ~quitOk THEN 1 ELSE 0)
    /\ UNCHANGED << inputV, credV, pwV, pageV, outV, post_url, csv_file, pageLog,
                    navigated >>

ChNext ==
    \/ ChLoadConfig \/ ChCheckPostUrl \/ ChLoginDetails \/ ChLaunch \/ ChLogin
    \/ ChNavigate \/ ChLoadMoreIteration \/ ChReplies \/ ChExpandPass \/ ChReturn
    \/ ChSavePageSource
    \/ ChExtract \/ ChWrite \/ ChDownloadAvatars \/ ChExcept \/ ChFinally

(***************************************************************************)
(* src/playwright_scraper.py: the login flows.                             *)
(***************************************************************************)
\* What page.url may be after a login attempt: which of the substrings the
\* code looks for it contains.
Url(n, feed, login, checkpoint, linkedin) ==
    [name |-> n, feed |-> feed, login |-> login, checkpoint |-> checkpoint,
     linkedin |-> linkedin]
Urls ==
    { Url("https://www.linkedin.com/feed/", TRUE, FALSE, FALSE, TRUE),
      Url("https://www.linkedin.com/login", FALSE, TRUE, FALSE, TRUE),
      Url("https://www.linkedin.com/checkpoint/challenge", FALSE, FALSE, TRUE, TRUE),
      Url("https://www.linkedin.com/uas/login-submit", FALSE, TRUE, FALSE, TRUE),
      Url("https://www.linkedin.com/in/me", FALSE, FALSE, FALSE, TRUE),
      Url("about:blank", FALSE, FALSE, FALSE, FALSE) }

\* wait_for_manual_login: wait_for_url("**/feed/**") returned (reached), or
\* timed out with the page at url.
wait_for_manual_login(reached, url) ==
    IF reached THEN TRUE ELSE ~url.login

\* login_with_credentials: any exception of the flow yields False.
login_with_credentials(flowRaises, url, reached, urlAfterWait) ==
    IF flowRaises THEN FALSE
    ELSE IF url.checkpoint THEN wait_for_manual_login(reached, urlAfterWait)
    ELSE url.feed \/ (~url.login /\ url.linkedin)

\* line 214 and line 224 test the same two things.
AlwaysLogin(exists, use_session) == TRUE
UsesSession(exists, use_session) == exists /\ use_session
NeedsLogin(exists, use_session) == ~exists \/ ~use_session

\* lines 230-235 and 241-246: only a successful login goes on to save_session.
IgnoreLoginResult(ok) == TRUE
LoginProceeds(ok) == ok

(***************************************************************************)
(* src/playwright_scraper.py: main() and scrape_post_comments().           *)
(***************************************************************************)
\* lines 306-311: only FileNotFoundError is caught, and main returns.
PwLoadConfig ==
    /\ pipeline = "playwright" /\ pc = "start"
    /\ CASE configFile = "ok" -> pc' = "pw_url" /\ UNCHANGED << exitCode, raised >>
         [] configFile = "missing" -> Exit(0) /\ UNCHANGED raised
         [] OTHER -> Exit(1) /\ raised' = TRUE
    /\ UNCHANGED << inputV, credV, pwV, pageV, outV, post_url, browser, csv_file,
                    pageLog, navigated >>

\* lines 313-316: an absent or empty post_url makes main return.
PwPostUrl ==
    /\ pipeline = "playwright" /\ pc = "pw_url"
    /\ LET u == IF cfgPostUrl = NoKey THEN "" ELSE cfgPostUrl
       IN IF Falsy(u)
          THEN Exit(0) /\ UNCHANGED post_url
          ELSE pc' = "pw_launch" /\ post_url' = u /\ UNCHANGED exitCode
    /\ UNCHANGED << inputV, credV, pwV, pageV, outV, raised, browser, csv_file,
                    pageLog, navigated >>

\* lines 208-211
PwLaunch ==
    /\ pipeline = "playwright" /\ pc = "pw_launch"
    /\ \E ok \in BOOLEAN :
         IF ok THEN browser' = "open" /\ pc' = "pw_context" /\ UNCHANGED << exitCode, raised >>
         ELSE Exit(1) /\ raised' = TRUE /\ UNCHANGED browser
    /\ UNCHANGED << inputV, credV, pwV, pageV, outV, post_url, csv_file, pageLog,
                    navigated >>

\* lines 214-220: the context and the page are created before the try block.
PwNewContext ==
    /\ pipeline = "playwright" /\ pc = "pw_context"
    /\ \E outcome \in {"ok", "new_context raises", "new_page raises"} :
         /\ context' = IF outcome = "new_context raises" THEN context
                       ELSE [state |-> "open",
                             from |-> IF UsesSession(sessionFile, args.use_session)
                                      THEN "session" ELSE "fresh"]
         /\ IF outcome = "ok" THEN pc' = "pw_login" /\ UNCHANGED << exitCode, raised >>
            ELSE Exit(1) /\ raised' = TRUE
    /\ UNCHANGED << inputV, credV, pageV, outV, sessionFile, sessionSaves, logged_in,
                    post_url, browser, csv_file, pageLog, navigated >>

PwRaise == pc' = "pw_finally" /\ raised' = TRUE
\* return None inside the try block: on to the finally clause.
PwReturnNone == pc' = "pw_finally" /\ UNCHANGED raised

\* lines 235 and 246: save_session after a login; storage_state may raise.
PwAfterLogin(ok, saveOk) ==
    /\ logged_in' = IF ok THEN "yes" ELSE "no"
    /\ IF LoginProceeds(ok)
       THEN IF saveOk
            THEN /\ sessionFile' = TRUE /\ sessionSaves' = sessionSaves + 1
                 /\ pc' = "pw_nav" /\ UNCHANGED raised
            ELSE PwRaise /\ UNCHANGED << sessionFile, sessionSaves >>
       ELSE PwReturnNone /\ UNCHANGED << sessionFile, sessionSaves >>

\* lines 224-250: the login decision and the login flow.
PwLogin ==
    /\ pipeline = "playwright" /\ pc = "pw_login"
    /\ IF NeedsLogin(sessionFile, args.use_session)
       THEN IF args.manual_login
            THEN \E outcome \in {"ok", "goto raises", "wait raises"},
                    reached \in BOOLEAN, url \in Urls, saveOk \in BOOLEAN :
                   IF outcome = "ok"
                   THEN /\ pageLog' = pageLog \o << "goto login", "wait_for_manual_login" >>
                        /\ PwAfterLogin(wait_for_manual_login(reached, url), saveOk)
                   ELSE /\ pageLog' = Append(pageLog, "goto login")
                        /\ PwRaise
                        /\ UNCHANGED << sessionFile, sessionSaves, logged_in >>
            ELSE IF ~Falsy(args.username) /\ ~Falsy(args.password)
            THEN \E flowRaises \in BOOLEAN, url \in Urls, reached \in BOOLEAN,
                    urlAfterWait \in Urls, saveOk \in BOOLEAN :
                   /\ pageLog' = Append(pageLog, "login_with_credentials")
                   /\ PwAfterLogin(login_with_credentials(flowRaises, url, reached,
                                                          urlAfterWait), saveOk)
            ELSE /\ PwReturnNone
                 /\ UNCHANGED << sessionFile, sessionSaves, logged_in, pageLog >>
       ELSE /\ pc' = "pw_nav"
            /\ UNCHANGED << sessionFile, sessionSaves, logged_in, pageLog, raised >>
    /\ UNCHANGED << inputV, credV, pageV, outV, context, post_url, exitCode, browser,
                    csv_file, navigated >>

\* lines 253-255: page.goto(post_url).
PwNavigate ==
    /\ pipeline = "playwright" /\ pc = "pw_nav"
    /\ pageLog' = Append(pageLog, "goto post")
    /\ navigated' = post_url
    /\ \E ok \in BOOLEAN, p \in LivePages :
         IF ok THEN pc' = "pw_load" /\ page' = p /\ UNCHANGED raised
         ELSE PwRaise /\ UNCHANGED page
    /\ UNCHANGED << inputV, credV, pwV, outV, lm, rp, post_url, exitCode, browser,
                    csv_file >>

\* lines 85-96: one iteration of while True.  There is one selector and one
\* visibility check; every exception ends the loop.
PwLoadMoreIteration ==
    /\ pipeline = "playwright" /\ pc = "pw_load"
    /\ \E outcome \in {"ok", "is_visible raises", "click raises"}, isTimeout \in BOOLEAN :
         CASE outcome = "is_visible raises" \/ page.moreLeft = 0 ->
                /\ lm' = LmMiss(lm, 1)
                /\ rp' = [rp EXCEPT !.timeout = (outcome = "ok" \/ isTimeout)]
                /\ pc' = "pw_loaded" /\ UNCHANGED page
           [] outcome = "click raises" /\ page.moreLeft > 0 ->
                /\ lm' = LmHit(lm, 1)
                /\ rp' = [rp EXCEPT !.timeout = isTimeout]
                /\ pc' = "pw_loaded" /\ UNCHANGED page
           [] OTHER ->
                /\ lm' = LmClick(lm, 1)
                /\ rp' = [rp EXCEPT !.timeout = FALSE]
                /\ page' = [page EXCEPT !.moreLeft = @ - 1]
                /\ UNCHANGED pc
    /\ UNCHANGED << inputV, credV, pwV, outV, post_url, exitCode, raised, browser,
                    csv_file, pageLog, navigated >>

\* lines 97-100: the first loop is over; without show_replies the function
\* returns, with it the page shows some 'See previous replies' buttons.
PwReplies ==
    /\ pipeline = "playwright" /\ pc = "pw_loaded"
    /\ page' = NoPage /\ lm' = NoLm
    /\ IF args.show_replies
       THEN \E n \in 0..MaxLoadMore : rp' = [NoRp EXCEPT !.prev = n] /\ pc' = "pw_prev"
       ELSE rp' = NoRp /\ pc' = "pw_capture"
    /\ UNCHANGED << inputV, credV, pwV, outV, post_url, exitCode, raised, browser,
                    csv_file, pageLog, navigated >>

\* lines 103-114: one iteration of the 'See previous replies' loop; when it
\* ends, the page shows some 'N replies' controls.
PwPreviousReplies ==
    /\ pipeline = "playwright" /\ pc = "pw_prev"
    /\ \E outcome \in {"ok", "TimeoutError", "other exception"} :
         IF outcome = "ok" /\ rp.prev > 0
         THEN rp' = [rp EXCEPT !.prev = @ - 1, !.timeout = FALSE] /\ UNCHANGED pc
         ELSE \E e \in ReplyPages :
                /\ rp' = [rp EXCEPT !.prev = 0, !.expanders = e,
                                    !.timeout = (outcome # "other exception")]
                /\ pc' = "pw_expand"
    /\ UNCHANGED << inputV, credV, pwV, outV, page, lm, post_url, exitCode, raised,
                    browser, csv_file, pageLog, navigated >>

\* lines 117-140: one pass of while True.  count() == 0 before the pass or
\* after it ends the loop, and so does every exception (line 139).
PwExpandPass ==
    /\ pipeline = "playwright" /\ pc = "pw_expand"
    /\ \E outcome \in {"ok", "TimeoutError", "other exception"} :
         IF outcome # "ok"
         THEN /\ rp' = [rp EXCEPT !.timeout = (outcome = "TimeoutError")]
              /\ pc' = "pw_replied"
         ELSE LET count == Len(rp.expanders)
                  c == ClicksOf(rp.expanders, PwVisitOrder(count))
                  left == AfterPass(rp.expanders)
              IN /\ rp' = [rp EXCEPT !.located = count, !.clicks = c,
                                     !.expanders = left, !.timeout = FALSE]
                 /\ pc' = IF count = 0 \/ Len(left) = 0 THEN "pw_replied"
                          ELSE "pw_expand"
    /\ UNCHANGED << inputV, credV, pwV, outV, page, lm, post_url, exitCode, raised,
                    browser, csv_file, pageLog, navigated >>

\* line 142: load_all_comments returns.
PwReturn ==
    /\ pipeline = "playwright" /\ pc = "pw_replied"
    /\ pc' = "pw_capture" /\ rp' = NoRp
    /\ UNCHANGED << inputV, credV, pwV, outV, page, lm, post_url, exitCode, raised,
                    browser, csv_file, pageLog, navigated >>

\* lines 261-267: page.content(), saved on request.
PwCapture ==
    /\ pipeline = "playwright" /\ pc = "pw_capture"
    /\ \E ok \in BOOLEAN, h \in Pages :
         IF ok THEN html' = h /\ pc' = "pw_extract" /\ UNCHANGED raised
         ELSE PwRaise /\ UNCHANGED html
    /\ UNCHANGED << inputV, credV, pwV, pageV, dl, data, lists, files, post_url, exitCode,
                    browser, csv_file, pageLog, navigated >>

\* lines 271-273
PwExtract ==
    /\ pipeline = "playwright" /\ pc = "pw_extract"
    /\ LET r == pw_extract_data_from_html(html)
       IN IF r.kind = "raise"
          THEN PwRaise /\ UNCHANGED data
          ELSE data' = r.data /\ pc' = "pw_finally" /\ UNCHANGED raised
    /\ UNCHANGED << inputV, credV, pwV, pageV, dl, html, lists, files, post_url, exitCode,
                    browser, csv_file, pageLog, navigated >>

\* lines 275-277: context.close() then browser.close(); a close that raises
\* skips what follows it.  An exception ends the process with status 1.
PwFinally ==
    /\ pipeline = "playwright" /\ pc = "pw_finally"
    /\ \E outcome \in {"ok", "context.close raises", "browser.close raises"} :
         /\ context' = IF outcome = "context.close raises" THEN context
                       ELSE [context EXCEPT !.state = "closed"]
         /\ browser' = IF outcome = "ok" THEN "closed" ELSE browser
         /\ raised' = (raised \/ outcome # "ok")
         /\ IF raised \/ outcome # "ok"
            THEN Exit(1)
            ELSE pc' = "pw_main" /\ UNCHANGED exitCode
    /\ UNCHANGED << inputV, credV, pageV, outV, sessionFile, sessionSaves, logged_in,
                    post_url, csv_file, pageLog, navigated >>

\* lines 327-332: if data: write_to_csv(data, output_file); main returns.
PwMainWrite ==
    /\ pipeline = "playwright" /\ pc = "pw_main"
    /\ \E ok \in BOOLEAN :
         IF ok \/ data = << >>
         THEN /\ files' = IF data # << >> THEN write_to_csv(data, files) ELSE files
              /\ Exit(0) /\ UNCHANGED raised
         ELSE Exit(1) /\ raised' = TRUE /\ UNCHANGED files
    /\ UNCHANGED << inputV, credV, pwV, pageV, dl, html, data, lists, post_url, browser,
                    csv_file, pageLog, navigated >>

PwNext ==
    \/ PwLoadConfig \/ PwPostUrl \/ PwLaunch \/ PwNewContext \/ PwLogin
    \/ PwNavigate \/ PwLoadMoreIteration \/ PwReplies \/ PwPreviousReplies
    \/ PwExpandPass \/ PwReturn \/ PwCapture \/ PwExtract
    \/ PwFinally \/ PwMainWrite

Next == FfNext \/ ChNext \/ PwNext

Spec == Init /\ [][Next]_vars

(***************************************************************************)
(* download_avatars on its own: the call of src/utils.py with the lists    *)
(* a caller may hand it.                                                   *)
(***************************************************************************)
DisplayNames ==
    { << "Jo", Space, "Ann", Space, "Smith", "." >>,
      << "jo", "-", "ann", "-", "smith" >>,
      << "Ann", "." >>,
      << "ann" >>,
      << "Bob" >> }
AvatarUrls == { << "https://cdn.io/ann.jpg" >>, << "https://cdn.io/cy.jpg" >> }

InitAvatars ==
    /\ pipeline = "utils"
    /\ pc = "dl_call"
    /\ args = CHOOSE a \in ArgsOf("chrome") : a.download_avatars
    /\ configFile = "ok"
    /\ cfgPostUrl = PostUrl
    /\ post_url = None
    /\ credFile = CHOOSE f \in CredFiles : f.state = "absent"
    /\ credWrites = 0
    /\ creds = NoPair
    /\ credPath = "none"
    /\ exitCode = 0
    /\ raised = FALSE
    /\ browser = "none"
    /\ csv_file = "none"
    /\ context = NoContext
    /\ sessionFile = FALSE
    /\ sessionSaves = 0
    /\ logged_in = "n/a"
    /\ pageLog = << >>
    /\ navigated = NoNav
    /\ page = NoPage
    /\ lm = NoLm
    /\ html = << >>
    /\ data = << >>
    /\ lists = NoLists
    /\ files = {}
    /\ rp = NoRp
    /\ \E u \in SeqsUpTo(AvatarUrls, MaxLen), f \in SeqsUpTo(DisplayNames, MaxLen) :
         dl = [NoDl EXCEPT !.urls = u, !.filenames = f]

\* src/utils.py lines 75-97, called with the arguments held in dl.
DownloadAvatarsCall ==
    /\ pipeline = "utils" /\ pc = "dl_call"
    /\ \E dirBefore \in DirStates, mkdirOk \in BOOLEAN, failAt \in 0..MaxLen :
         dl' = download_avatars(dl.urls, dl.filenames, AvatarDir, dirBefore, mkdirOk, failAt)
    /\ raised' = (dl'.failed # 0)
    /\ pc' = "dl_done"
    /\ UNCHANGED << inputV, credV, pwV, pageV, html, data, lists, files, post_url,
                    exitCode, browser, csv_file, pageLog, navigated >>

NextAvatars == DownloadAvatarsCall

SpecAvatars == InitAvatars /\ [][NextAvatars]_vars

(***************************************************************************)
(* The claims.                                                             *)
(***************************************************************************)

\* C1: in the Playwright pipeline, when linkedin_session.json exists and
\* session reuse is enabled, the context is created from that file, no login
\* flow runs whatever --manual-login, --username and --password say, no
\* session is saved, and the first thing the page does is go to the post.
C1_SessionReuseSkipsLogin ==
    [][ /\ (pc = "pw_context" /\ sessionFile /\ args.use_session
               /\ context'.state = "open") => context'.from = "session"
        /\ context'.from = "session" =>
             /\ sessionSaves' = 0
             /\ logged_in' = "n/a"
             /\ pageLog' \in { << >>, << "goto post" >> }
             /\ (pc' \in {"pw_load", "pw_loaded", "pw_capture", "pw_extract"}
                   => pageLog' = << "goto post" >> /\ navigated' = post_url) ]_vars

C1_Witness ==
    /\ context.from = "session" /\ navigated = PostUrl /\ pc = "pw_load"
    /\ args.manual_login /\ ~Falsy(args.username) /\ ~Falsy(args.password)

\* C2: in the Firefox pipeline, on every path out of the run after the output
\* CSV was opened, the browser (if launched) has been quit and the CSV file
\* handle has been closed when the process ends.
C2_CleanupOnEveryPath ==
    (pipeline = "firefox" /\ pc = "exited" /\ csv_file # "none")
        => (csv_file = "closed" /\ browser # "open")

\* C3: in the Firefox pipeline, after the padding step all six lists have the
\* same length, the maximum of the six lengths found, and exactly that many
\* data rows are written.
C3_PaddedToMaxOfSix ==
    (pipeline = "firefox" /\ lists.found # << >>) =>
        LET f == lists.found
            m == Max(f[1], Max(f[2], Max(f[3], Max(f[4], Max(f[5], f[6])))))
        IN /\ Len(lists.names) = m /\ Len(lists.profile_links) = m
           /\ Len(lists.avatars) = m /\ Len(lists.headlines) = m
           /\ Len(lists.emails) = m /\ Len(lists.comments) = m
           /\ pc = "ff_avatars" => \A file \in files : Len(file.rows) = m + 1

\* C4: no run of any pipeline sends the browser to the post with an absent or
\* empty URL.
C4_NeverNavigatesWithoutUrl ==
    navigated # NoNav => ~Falsy(navigated)

\* C5, as amended: when no 'load more comments' control is found, the loop
\* ends in its first iteration with no click, after one bounded wait per
\* candidate selector (four in the Chrome backend, one in the Playwright
\* backend), and load_all_comments goes on.
C5_NoControlEndsFirstIteration ==
    (pc \in {"ch_loaded", "pw_loaded"} /\ ~lm.found) =>
        /\ lm.iterations = 1
        /\ lm.clicks = 0
        /\ lm.waits = IF pipeline = "chrome" THEN Len(ChromeSelectors) ELSE 1

C5_Witness == pc = "ch_loaded" /\ ~lm.found /\ lm.iterations = 1

\* C5, as stated: when no 'load more comments' control is found, the loop
\* ends in its first iteration with no click, after one bounded wait.
C5_OneWait ==
    (pc \in {"ch_loaded", "pw_loaded"} /\ ~lm.found) =>
        (lm.iterations = 1 /\ lm.clicks = 0 /\ lm.waits = 1)

\* C6: for any captured HTML, the grouped extractor of both backends returns
\* without raising, with one record per article that has a non-empty name or
\* a non-empty comment text and none for the others.
NameOrComment(a) ==
    IF pipeline = "chrome"
    THEN TextOf(ChromeNameElem(a)) # << >> \/ TextOf(ChromeCommentElem(a)) # << >>
    ELSE TextOf(a.title) # << >> \/ TextOf(a.span) # << >>

C6_ExtractorReturnsOnePerArticle ==
    ((pipeline = "chrome" /\ pc = "ch_write")
        \/ (pipeline = "playwright" /\ pc = "pw_finally" /\ html # << >>)) =>
        /\ ~raised
        /\ Len(data) = Cardinality({ i \in 1..Len(html) : NameOrComment(html[i]) })

\* C7: write_to_csv with an empty sequence creates or modifies no file and
\* returns; with n >= 1 records it writes one header row, the first record's
\* field names, then the n records' values in input order.
C7_WriteToCsv ==
    [][ (pc \in {"ch_write", "pw_main"} /\ pc' # pc) =>
          /\ data = << >> => (files' = files /\ ~raised')
          /\ (data # << >> /\ ~raised') =>
               files' = { [name |-> OutputFile,
                           rows |-> << [j \in 1..Len(data[1]) |-> data[1][j][1]] >>
                                    \o [i \in 1..Len(data) |->
                                          [j \in 1..Len(data[i]) |-> data[i][j][2]]]] }
      ]_vars

C7_Witness == pc = "ch_avatars" /\ html # << >> /\ data = << >> /\ files = {}

\* C8: in each pipeline the exit status is non-zero whenever config.json is
\* missing or is not valid JSON or an unhandled error occurred, and zero only
\* when the scrape completed normally.
C8_ExitStatus ==
    pc = "exited" =>
        /\ (configFile # "ok" \/ raised) => exitCode # 0
        /\ exitCode = 0 => (navigated # NoNav /\ browser = "closed")

\* C9: in the Playwright pipeline with no usable session, the post is
\* navigated to only after a login flow returned success; the session file
\* is written exactly when a login flow returned success, before that
\* navigation; a failed or unavailable login ends the run with neither.
C9_LoginBeforeNavigation ==
    (pipeline = "playwright" /\ context.from = "fresh") =>
        /\ navigated # NoNav => (logged_in = "yes" /\ sessionSaves = 1)
        /\ sessionSaves \in {0, 1}
        /\ sessionSaves = 1 => (logged_in = "yes" /\ sessionFile)
        /\ (logged_in = "yes" /\ sessionSaves = 0) => (raised /\ navigated = NoNav)
        /\ (logged_in # "yes" /\ pc # "pw_login") =>
             /\ navigated = NoNav /\ sessionSaves = 0 /\ ~sessionFile
             /\ pc \in {"pw_finally", "pw_main", "exited"}

C9_Witness ==
    /\ context.from = "fresh" /\ logged_in = "yes" /\ sessionSaves = 1
    /\ navigated = PostUrl

\* C10: login_details writes credentials.json only when the operator typed
\* new credentials and answered 'y' to the save prompt; on every other path
\* the file is left as it was, and reused credentials are returned exactly
\* as stored.
C10_CredentialsWrittenOnlyByConsent ==
    [][ /\ (credFile' # credFile \/ credWrites' # credWrites)
              => credPath' = "typed, save accepted"
        /\ (credPath = "none" /\ credPath' = "reused" /\ ~raised')
              => /\ credFile.state = "ok"
                 /\ creds' = [email |-> credFile.email, password |-> credFile.password]
      ]_vars

C10_Witness ==
    /\ credPath = "typed, save accepted" /\ credWrites = 1
    /\ credFile.email = "new@x.io" /\ creds.email = "new@x.io"

\* C11: a wait timeout met by load_all_comments (Chrome and Playwright) while
\* it looks for a 'load more comments', 'See previous replies' or 'N replies'
\* control is never left as an exception: the step that met it ends the
\* current loop with nothing raised, and the next step is the rest of
\* load_all_comments or the capture of the page.
C11_TimeoutsNeverPropagate ==
    [][ /\ rp'.timeout =>
             /\ ~raised'
             /\ pc' \in {"ch_loaded", "ch_replied", "pw_loaded", "pw_expand", "pw_replied"}
        /\ rp.timeout =>
             /\ ~raised'
             /\ pc' \in {"ch_expand", "ch_replied", "ch_save",
                         "pw_prev", "pw_expand", "pw_replied", "pw_capture"} ]_vars

\* Comments were loaded, then a wait timed out and the first loop is over.
C11_Witness ==
    pc = "ch_loaded" /\ rp.timeout /\ lm.clicks > 0 /\ ~raised

\* C13: in both backends a pass of the reply-expander loop that located
\* controls and clicked none of them ends the loop.
C13_IdlePassEndsLoop ==
    ~(pc \in {"ch_expand", "pw_expand"} /\ rp.located > 0 /\ rp.clicks = << >>)

\* C14: Chrome's pass counter never exceeds 5, and with 5 passes done the
\* loop is left even though the last pass clicked a control.
C14_AtMostFivePasses ==
    [][ /\ rp'.attempts <= 5
        /\ (pc = "ch_expand" /\ rp.attempts >= 5) => pc' = "ch_replied" ]_vars

\* Five passes, each of which clicked, and the loop is over.
C14_Witness ==
    pc = "ch_replied" /\ rp.attempts = 5 /\ rp.clicks # << >> /\ rp.expanders # << >>

\* C15: in both backends the controls a pass clicks are clicked from the
\* last located to the first.
C15_ReverseDocumentOrder ==
    \A i, j \in 1..Len(rp.clicks) : i < j => rp.clicks[i] > rp.clicks[j]

C17_SessionReuseCanBeDisabled ==
    (pipeline = "playwright" /\ ~args.use_session_flag /\ context.state # "none")
        => /\ context.from = "fresh"
           /\ navigated # NoNav => logged_in = "yes"

\* C12: download_avatars writes the k-th avatar to <directory>/<stem>.jpg,
\* the stem being the display name with every token lower-cased, every '.'
\* removed and every space replaced with '-' (so "Jo Ann Smith." gives
\* "jo-ann-smith"); a directory that was there stays and is no error, an
\* absent one is created unless os.mkdir itself fails, and then nothing is
\* saved; of the downloads that share a path the file holds the latest.
C12_AvatarFilesNamedAndOverwritten ==
    dl.called =>
        LET n == Min(Len(dl.urls), Len(dl.filenames))
            done == IF dl.failed = 0 THEN n ELSE dl.failed - 1
            kept(k) == SelectSeq(dl.filenames[k], LAMBDA t : t # ".")
            stem(k) == [i \in 1..Len(kept(k)) |->
                            IF kept(k)[i] = Space THEN "-" ELSE Lower(kept(k)[i])]
            path(k) == << AvatarDir, "/" >> \o stem(k) \o << ".jpg" >>
            latest(k) == CHOOSE j \in 1..done :
                            /\ path(j) = path(k)
                            /\ \A i \in 1..done : path(i) = path(k) => i <= j
        IN /\ dl.saved = { [path |-> path(k), body |-> dl.urls[latest(k)]] : k \in 1..done }
           /\ \A k \in 1..done :
                  dl.filenames[k] = << "Jo", Space, "Ann", Space, "Smith", "." >>
                      => path(k) = << AvatarDir, "/", "jo", "-", "ann", "-", "smith", ".jpg" >>
           /\ dl.dirBefore = "present" => dl.dir = "present"
           /\ dl.dir = "absent" => dl.saved = {} /\ (n > 0 => dl.failed = 1)
           /\ (dl.dirBefore = "present" /\ dl.failed # 0) => dl.failed <= n
           /\ dl.failed # 0 => raised

\* "Jo Ann Smith." and "jo-ann-smith" were downloaded into a directory that
\* was absent: one file, jo-ann-smith.jpg, holding the second download.
C12_Witness ==
    /\ pipeline = "utils" /\ dl.called /\ dl.failed = 0
    /\ dl.dirBefore = "absent" /\ dl.dir = "present"
    /\ dl.filenames = << << "Jo", Space, "Ann", Space, "Smith", "." >>,
                         << "jo", "-", "ann", "-", "smith" >> >>
    /\ dl.urls = << << "https://cdn.io/ann.jpg" >>, << "https://cdn.io/cy.jpg" >> >>
    /\ dl.saved = { [path |-> << AvatarDir, "/", "jo", "-", "ann", "-", "smith", ".jpg" >>,
                     body |-> << "https://cdn.io/cy.jpg" >>] }

\* C18: in the Chrome pipeline the URL list and the name list handed to
\* download_avatars are as long as each other, hold the avatar and the name
\* of exactly the records whose avatar URL is not empty, in record order,
\* and no URL handed over is empty.
C18_ChromeAvatarListsAligned ==
    (pipeline = "chrome" /\ dl.called) =>
        LET withAvatar == SelectSeq([i \in 1..Len(data) |-> i],
                                    LAMBDA i : Get(data[i], "Profile Picture") # << >>)
        IN /\ Len(dl.urls) = Len(withAvatar)
           /\ Len(dl.filenames) = Len(withAvatar)
           /\ \A k \in 1..Len(withAvatar) :
                  /\ dl.urls[k] = Get(data[withAvatar[k]], "Profile Picture")
                  /\ dl.filenames[k] = Get(data[withAvatar[k]], "Name")
           /\ \A k \in 1..Len(dl.urls) : dl.urls[k] # << >>

\* Bob has no avatar and Ann has one: one URL and one name, both Ann's.
C18_Witness ==
    /\ pipeline = "chrome" /\ dl.called
    /\ Len(data) = 2
    /\ Get(data[1], "Profile Picture") = << >> /\ Get(data[1], "Name") = << "Bob" >>
    /\ dl.urls = << << "https://cdn.io/ann.jpg" >> >>
    /\ dl.filenames = << << "Ann" >> >>

====
